---- MODULE Spec2Model ----
(***************************************************************************)
(* Model of the endpoint monitor EPM (src/app.py): the run loop, one       *)
(* monitoring cycle with its concurrent probes, the per-domain counters    *)
(* and the SIGINT handler.                                                 *)
(*                                                                         *)
(* The program is an asyncio program: one thread, tasks interleave only    *)
(* at await points, and the signal handler may run between any two steps.  *)
(* Every action below is the code between two suspension points.           *)
(***************************************************************************)
EXTENDS Integers, Sequences, FiniteSets, TLC

\* ---------------------------------------------------------------- bounds
\* Number of monitoring cycles the model follows.
MaxCycles == 2
\* Number of SIGINT deliveries the model follows.
MaxSignals == 2
SteadyCycles == 10
MaxTotal == 16

\* ------------------------------------------------------ program constants
\* isUP: 200 <= response.status < 300 and elapsed_ms < 500
StatusLo == 200
StatusHi == 300
UpLatencyMs == 500
\* aiohttp.ClientTimeout(total=5), in milliseconds
TimeoutMs == 5000

\* ------------------------------------------------------------------ URLs
\* A URL is a sequence of tokens; urlparse splits it at the delimiters.
U1 == <<"http", ":", "//", "a.com", "/", "x">>
U2 == <<"https", ":", "//", "a.com", "?", "q">>
U3 == <<"http", ":", "//", "b.com", ":8080", "/", "y">>
\* no scheme and no "//": urlparse gives an empty netloc
U4 == <<"a.com", "/", "x">>
U5 == <<"http", ":", "//", "b.com", ":8080", "/", "z">>

Schemes == {"http", "https"}
PathDelims == {"/", "?", "#"}

\* The part of a URL after its scheme (urlsplit: "scheme:" prefix removed).
AfterScheme(url) ==
    IF Len(url) >= 2 /\ url[1] \in Schemes /\ url[2] = ":"
    THEN SubSeq(url, 3, Len(url))
    ELSE url

RECURSIVE UpToDelim(_)
\* The longest prefix of s holding none of "/", "?", "#".
UpToDelim(s) ==
    IF s = <<>> \/ Head(s) \in PathDelims
    THEN <<>>
    ELSE <<Head(s)>> \o UpToDelim(Tail(s))

\* urlparse(url).netloc: what follows "//" up to the next "/", "?" or "#".
getDomain(url) ==
    LET rest == AfterScheme(url)
    IN  IF rest # <<>> /\ Head(rest) = "//"
        THEN UpToDelim(Tail(rest))
        ELSE <<>>

\* ------------------------------------------------------- configuration
\* Endpoint descriptors as the YAML file gives them: mappings whose keys
\* may be absent.
EpGet(u)     == [url |-> u]
EpPost(u)    == [url |-> u, method |-> "POST"]
EpNoUrl      == [method |-> "GET"]

\* What open() + yaml.safe_load() may meet.
ConfigFiles ==
    { [kind |-> "missing"],
      [kind |-> "syntax"],
      [kind |-> "null"],
      [kind |-> "list", doc |-> <<>>],
      [kind |-> "list", doc |-> <<EpGet(U1)>>],
      [kind |-> "list", doc |-> <<EpGet(U1), EpPost(U2)>>],
      [kind |-> "list", doc |-> <<EpGet(U3), EpGet(U1)>>],
      [kind |-> "list", doc |-> <<EpGet(U4)>>],
      [kind |-> "list", doc |-> <<EpGet(U1), EpNoUrl>>],
      [kind |-> "list", doc |-> <<EpNoUrl>>] }

HasUrl(ep) == "url" \in DOMAIN ep

\* loadConfig, lines 25-27: default method
WithDefault(ep) ==
    IF "method" \in DOMAIN ep
    THEN ep
    ELSE [k \in (DOMAIN ep) \cup {"method"} |-> IF k = "method" THEN "GET" ELSE ep[k]]


\* ----------------------------------------------------------------- state
VARIABLES
    configFile,   \* the file at configPath (environment, fixed for a run)
    pc,           \* position of run(): install, load, test, enter, gather,
                  \* abort, report, sleep, exited
    running,      \* self.running
    endpoints,    \* self.endpoints
    domainStats,  \* self.domainStats: insertion-ordered entries
    probes,       \* the checkEndpoint tasks of the current cycle
    repIdx,       \* printAvailability: position in domainStats.items()
    cycle,        \* number of monitorCycle calls started
    out,          \* lines written to stdout / stderr, in order; the report
                  \* lines of finished cycles are dropped (see Scrolled)
    exitStatus,   \* <<>> while the process lives, <<code>> once it exited
    cancelledAt   \* <<>>, or where run() stood (the handler's frame argument)
                  \* when handleInterrupt cleared the flag

vars == <<configFile, pc, running, endpoints, domainStats, probes, repIdx,
          cycle, out, exitStatus, cancelledAt>>

\* --------------------------------------------------------- domain counters
\* Position of domain d in the dict, 0 when absent.
IndexOf(stats, d) ==
    IF \E i \in 1..Len(stats) : stats[i].domain = d
    THEN CHOOSE i \in 1..Len(stats) : stats[i].domain = d
    ELSE 0

\* defaultdict(lambda: {'up': 0, 'total': 0}): reading a missing key adds it.
Touch(stats, d) ==
    IF IndexOf(stats, d) = 0
    THEN Append(stats, [domain |-> d, up |-> 0, total |-> 0])
    ELSE stats

\* Variant of isUP with the latency bound inclusive (elapsed_ms <= 500).
isUPInclusive(status, elapsed) ==
    StatusLo <= status /\ status < StatusHi /\ elapsed <= UpLatencyMs

\* isUP = (200 <= response.status < 300 and elapsed_ms < 500)
isUP(status, elapsed) ==
    StatusLo <= status /\ status < StatusHi /\ elapsed < UpLatencyMs

\* Variant of Record with the total increment inside the if isUP block.
RecordUpOnly(stats, d, up) ==
    LET base == Touch(stats, d)
        i    == IndexOf(base, d)
    IN  IF up
        THEN [base EXCEPT ![i].total = @ + 1, ![i].up = @ + 1]
        ELSE base

\* Variant of Record in which a DOWN outcome clears the up counter.
RecordResetsOnDown(stats, d, up) ==
    LET base == Touch(stats, d)
        i    == IndexOf(base, d)
    IN  [base EXCEPT ![i].total = @ + 1,
                     ![i].up    = IF up THEN @ + 1 ELSE 0]

\* Variant of Record that deletes the key and inserts it again, which moves
\* the domain to the end of the dict.
RecordMoveToEnd(stats, d, up) ==
    LET base == Touch(stats, d)
        i    == IndexOf(base, d)
        e    == [base[i] EXCEPT !.total = @ + 1,
                                !.up    = IF up THEN @ + 1 ELSE @]
    IN  Append(SelectSeq(base, LAMBDA x : x.domain # d), e)

\* Lines 55-57: total += 1, and up += 1 when isUP.
Record(stats, d, up) ==
    LET base == Touch(stats, d)
        i    == IndexOf(base, d)
    IN  [base EXCEPT ![i].total = @ + 1,
                     ![i].up    = IF up THEN @ + 1 ELSE @]

\* Variant of RecordDown that increments the wrong counter.
RecordDownAsUp(stats, d) ==
    LET base == Touch(stats, d)
        i    == IndexOf(base, d)
    IN  [base EXCEPT ![i].up = @ + 1]

\* Line 61, the except branch: total += 1.
RecordDown(stats, d) ==
    LET base == Touch(stats, d)
        i    == IndexOf(base, d)
    IN  [base EXCEPT ![i].total = @ + 1]

Up(stats, d)    == IF IndexOf(stats, d) = 0 THEN 0 ELSE stats[IndexOf(stats, d)].up
Total(stats, d) == IF IndexOf(stats, d) = 0 THEN 0 ELSE stats[IndexOf(stats, d)].total

\* Variant of Availability that rounds exact halves up.
AvailabilityHalfUp(up, total) ==
    (2 * 100 * up + total) \div (2 * total)

\* round(100 * up / total): Python rounds exact halves to the even integer.
Availability(up, total) ==
    LET n == 100 * up
        q == n \div total
        r == n % total
    IN  IF 2 * r < total THEN q
        ELSE IF 2 * r > total THEN q + 1
        ELSE IF q % 2 = 0 THEN q ELSE q + 1

\* ------------------------------------------------------------ transport
Statuses   == {199, 200, 299, 300}
\* A response cannot arrive once the timeout has fired (see ProbeResponse).
ElapsedSet == {499, 500, 5000}
Failures   == {"timeout", "connect", "dns", "malformed"}

NoRes == [kind |-> "none"]

\* Variant of AllDone: return as soon as one task has finished.
AnyDone(ps) == \E i \in 1..Len(ps) : ps[i].st = "done"

\* asyncio.gather(*tasks) returns when every task has finished.
AllDone(ps) == \A i \in 1..Len(ps) : ps[i].st = "done"

\* ---------------------------------------------------------------- Init
\* EPM.__init__, lines 13-17, and the start of run().
Constructed ==
    /\ pc = "install"
    /\ running = TRUE
    /\ endpoints = <<>>
    /\ domainStats = <<>>
    /\ probes = <<>>
    /\ repIdx = 0
    /\ cycle = 0
    /\ out = <<>>
    /\ exitStatus = <<>>
    /\ cancelledAt = <<>>

Init ==
    /\ configFile \in ConfigFiles
    /\ Constructed

\* -------------------------------------------------------------- actions
\* run(), line 87: signal.signal(signal.SIGINT, self.handleInterrupt)
InstallHandler ==
    /\ pc = "install"
    /\ pc' = "load"
    /\ UNCHANGED <<configFile, running, endpoints, domainStats, probes,
                   repIdx, cycle, out, exitStatus, cancelledAt>>

\* The except branch of run(): print the error to stderr, sys.exit(1).
Fatal ==
    /\ pc' = "exited"
    /\ out' = Append(out, [k |-> "error"])
    /\ exitStatus' = <<1>>

\* loadConfig, called at line 90.  A missing file, a syntax error and an
\* empty document (safe_load gives None, the for loop raises) are fatal.
LoadConfig ==
    /\ pc = "load"
    /\ IF configFile.kind = "list"
       THEN /\ endpoints' = [i \in 1..Len(configFile.doc) |->
                                WithDefault(configFile.doc[i])]
            /\ pc' = "test"
            /\ UNCHANGED <<out, exitStatus>>
       ELSE /\ Fatal
            /\ UNCHANGED endpoints
    /\ UNCHANGED <<configFile, running, domainStats, probes, repIdx, cycle,
                   cancelledAt>>

\* Variant of LoopTest that never reads the flag (while True).
LoopTestForever ==
    /\ pc = "test"
    /\ pc' = "enter"
    /\ UNCHANGED <<configFile, running, endpoints, domainStats, probes,
                   repIdx, cycle, out, exitStatus, cancelledAt>>

\* Line 92: while self.running.  A false flag ends run(); main returns and
\* the process exits with status 0.
LoopTest ==
    /\ pc = "test"
    /\ IF running
       THEN pc' = "enter" /\ UNCHANGED exitStatus
       ELSE pc' = "exited" /\ exitStatus' = <<0>>
    /\ UNCHANGED <<configFile, running, endpoints, domainStats, probes,
                   repIdx, cycle, out, cancelledAt>>

\* The first step of a checkEndpoint task, lines 35-42: the domain is read
\* outside the try, so an endpoint without url raises KeyError to gather.
FirstStep(ep) ==
    IF HasUrl(ep)
    THEN [st |-> "pending", domain |-> getDomain(ep.url), res |-> NoRes]
    ELSE [st |-> "raised", domain |-> <<>>, res |-> NoRes]

\* The program only ever appends to its output and never reads it back.
\* The model keeps the notices, the error message and the report of the
\* cycle in progress; when a cycle starts, the report lines of the cycles
\* before it are dropped from the record.
Scrolled(o) == SelectSeq(o, LAMBDA e : e.k # "line")

\* Variant of Dispatch that starts every cycle with fresh counters.
DispatchResets ==
    /\ pc = "enter"
    /\ cycle < MaxCycles
    /\ cycle' = cycle + 1
    /\ probes' = [i \in 1..Len(endpoints) |-> FirstStep(endpoints[i])]
    /\ pc' = IF \E i \in 1..Len(endpoints) : ~HasUrl(endpoints[i])
             THEN "abort" ELSE "gather"
    /\ domainStats' = <<>>
    /\ out' = Scrolled(out)
    /\ UNCHANGED <<configFile, running, endpoints, repIdx, exitStatus,
                   cancelledAt>>

\* monitorCycle, lines 72-76: one task per endpoint, each run up to its
\* first await; gather raises at once when a task raised.
DispatchCycle ==
    /\ pc = "enter"
    /\ cycle' = cycle + 1
    /\ probes' = [i \in 1..Len(endpoints) |-> FirstStep(endpoints[i])]
    /\ pc' = IF \E i \in 1..Len(endpoints) : ~HasUrl(endpoints[i])
             THEN "abort" ELSE "gather"
    /\ out' = Scrolled(out)
    /\ UNCHANGED <<configFile, running, endpoints, domainStats, repIdx,
                   exitStatus, cancelledAt>>

\* Line 93, as far as the model follows the run: MaxCycles cycles.
Dispatch ==
    /\ cycle < MaxCycles
    /\ DispatchCycle

\* checkEndpoint, lines 48-57: the response arrived within the timeout;
\* classification and counter update run without an await in between.
ProbeResponse(i, status, elapsed) ==
    /\ pc \in {"gather", "abort"}
    /\ i \in 1..Len(probes)
    /\ probes[i].st = "pending"
    /\ elapsed < TimeoutMs
    /\ domainStats' = Record(domainStats, probes[i].domain, isUP(status, elapsed))
    /\ probes' = [probes EXCEPT ![i].st = "releasing",
                                ![i].res = [kind |-> "response", status |-> status,
                                            elapsed |-> elapsed]]
    /\ UNCHANGED <<configFile, pc, running, endpoints, repIdx, cycle, out,
                   exitStatus, cancelledAt>>

\* Leaving the async with block: the response is released and the task
\* returns; response and elapsed_ms go out of scope.
ProbeReleased(i) ==
    /\ pc \in {"gather", "abort"}
    /\ i \in 1..Len(probes)
    /\ probes[i].st = "releasing"
    /\ probes' = [probes EXCEPT ![i].st = "done", ![i].res = NoRes]
    /\ UNCHANGED <<configFile, pc, running, endpoints, domainStats, repIdx,
                   cycle, out, exitStatus, cancelledAt>>

\* Leaving the async with block raises: the except branch (line 61) runs
\* although lines 55-57 already counted the probe.
ProbeReleaseFails(i) ==
    /\ pc \in {"gather", "abort"}
    /\ i \in 1..Len(probes)
    /\ probes[i].st = "releasing"
    /\ domainStats' = RecordDown(domainStats, probes[i].domain)
    /\ probes' = [probes EXCEPT ![i].st = "done", ![i].res = NoRes]
    /\ UNCHANGED <<configFile, pc, running, endpoints, repIdx, cycle, out,
                   exitStatus, cancelledAt>>

\* Variant of ProbeFailure without the except branch: the exception
\* reaches gather and the cycle.
ProbeFailureRaises(i, err) ==
    /\ pc \in {"gather", "abort"}
    /\ i \in 1..Len(probes)
    /\ probes[i].st = "pending"
    /\ err \in Failures
    /\ probes' = [probes EXCEPT ![i].st = "raised",
                                ![i].res = [kind |-> "error"]]
    /\ pc' = "abort"
    /\ UNCHANGED <<configFile, running, endpoints, domainStats, repIdx, cycle,
                   out, exitStatus, cancelledAt>>

\* checkEndpoint, lines 59-61: the request raised (timeout, connection
\* refused, DNS error, malformed response); the exception is swallowed.
ProbeFailure(i, err) ==
    /\ pc \in {"gather", "abort"}
    /\ i \in 1..Len(probes)
    /\ probes[i].st = "pending"
    /\ domainStats' = RecordDown(domainStats, probes[i].domain)
    /\ err \in Failures
    /\ probes' = [probes EXCEPT ![i].st = "done",
                                ![i].res = [kind |-> "error"]]
    /\ UNCHANGED <<configFile, pc, running, endpoints, repIdx, cycle, out,
                   exitStatus, cancelledAt>>

\* Variant of GatherDone in which the driver applies a DOWN outcome for the
\* first probe after the gather.
GatherDoneApplies ==
    /\ pc = "gather"
    /\ AllDone(probes)
    /\ pc' = "report"
    /\ repIdx' = 1
    /\ domainStats' = IF probes = <<>> THEN domainStats
                      ELSE RecordDown(domainStats, probes[1].domain)
    /\ UNCHANGED <<configFile, running, endpoints, probes, cycle, out,
                   exitStatus, cancelledAt>>

\* Line 76 returns: every task finished and its locals are gone.  Line 78
\* then calls printAvailability.
GatherDone ==
    /\ pc = "gather"
    /\ AllDone(probes)
    /\ pc' = "report"
    /\ repIdx' = 1
    /\ probes' = [i \in 1..Len(probes) |->
                    IF probes[i].st = "done"
                    THEN [probes[i] EXCEPT !.res = NoRes]
                    ELSE probes[i]]
    /\ UNCHANGED <<configFile, running, endpoints, domainStats, cycle, out,
                   exitStatus, cancelledAt>>

\* Lines 93, 96-98: gather raised KeyError; monitorCycle leaves the session
\* block and run() prints the error and exits with status 1.
CycleFails ==
    /\ pc = "abort"
    /\ Fatal
    /\ UNCHANGED <<configFile, running, endpoints, domainStats, probes,
                   repIdx, cycle, cancelledAt>>

\* Variant of PrintLine that walks the endpoints instead of the domains.
PrintLinePerEndpoint ==
    /\ pc = "report"
    /\ repIdx <= Len(endpoints)
    /\ LET d == getDomain(endpoints[repIdx].url)
       IN  out' = Append(out, [k |-> "line", cycle |-> cycle, domain |-> d,
                               pct |-> Availability(Up(domainStats, d),
                                                    Total(domainStats, d))])
    /\ repIdx' = repIdx + 1
    /\ UNCHANGED <<configFile, pc, running, endpoints, domainStats, probes,
                   cycle, exitStatus, cancelledAt>>

\* printAvailability, lines 65-68: one iteration of the for loop.
PrintLine ==
    /\ pc = "report"
    /\ repIdx <= Len(domainStats)
    /\ LET e == domainStats[repIdx]
       IN  out' = IF e.total > 0
                  THEN Append(out, [k |-> "line", cycle |-> cycle,
                                    domain |-> e.domain,
                                    pct |-> Availability(e.up, e.total)])
                  ELSE out
    /\ repIdx' = repIdx + 1
    /\ UNCHANGED <<configFile, pc, running, endpoints, domainStats, probes,
                   cycle, exitStatus, cancelledAt>>

\* Variant of ReportEnd that starts the next cycle at once when the report
\* was empty.
ReportEndSkipsSleep ==
    /\ pc = "report"
    /\ repIdx > Len(domainStats)
    /\ pc' = IF domainStats = <<>> THEN "enter" ELSE "sleep"
    /\ UNCHANGED <<configFile, running, endpoints, domainStats, probes,
                   repIdx, cycle, out, exitStatus, cancelledAt>>

\* printAvailability returns; line 94: await asyncio.sleep(15) starts.
ReportEnd ==
    /\ pc = "report"
    /\ repIdx > Len(domainStats)
    /\ pc' = "sleep"
    /\ UNCHANGED <<configFile, running, endpoints, domainStats, probes,
                   repIdx, cycle, out, exitStatus, cancelledAt>>

\* The sleep of line 94 ends; control returns to the loop test.
SleepDone ==
    /\ pc = "sleep"
    /\ pc' = "test"
    /\ UNCHANGED <<configFile, running, endpoints, domainStats, probes,
                   repIdx, cycle, out, exitStatus, cancelledAt>>

\* Number of shutdown notices printed, one per delivered SIGINT.
Notices == Cardinality({j \in 1..Len(out) : out[j].k = "notice"})

\* Variant of Interrupt that ends the process from inside the handler.
InterruptExits ==
    /\ pc \notin {"install", "exited"}
    /\ Notices < MaxSignals
    /\ out' = Append(out, [k |-> "notice"])
    /\ running' = FALSE
    /\ cancelledAt' = IF running THEN <<[pc |-> pc, cycle |-> cycle]>>
                                  ELSE cancelledAt
    /\ pc' = "exited"
    /\ exitStatus' = <<0>>
    /\ UNCHANGED <<configFile, endpoints, domainStats, probes, repIdx, cycle>>

\* Variant of Interrupt that flips the flag.
InterruptToggles ==
    /\ pc \notin {"install", "exited"}
    /\ Notices < MaxSignals
    /\ out' = Append(out, [k |-> "notice"])
    /\ running' = ~running
    /\ cancelledAt' = IF running THEN <<[pc |-> pc, cycle |-> cycle]>>
                                  ELSE cancelledAt
    /\ UNCHANGED <<configFile, pc, endpoints, domainStats, probes, repIdx,
                   cycle, exitStatus>>

\* handleInterrupt, lines 80-83: runs between any two steps of the program
\* once installed.
Interrupt ==
    /\ pc \notin {"install", "exited"}
    /\ Notices < MaxSignals
    /\ out' = Append(out, [k |-> "notice"])
    /\ running' = FALSE
    /\ cancelledAt' = IF running THEN <<[pc |-> pc, cycle |-> cycle]>>
                                  ELSE cancelledAt
    /\ UNCHANGED <<configFile, pc, endpoints, domainStats, probes, repIdx,
                   cycle, exitStatus>>

Next ==
    \/ InstallHandler
    \/ LoadConfig
    \/ LoopTest
    \/ Dispatch
    \/ \E i \in 1..Len(probes), s \in Statuses, e \in ElapsedSet :
          ProbeResponse(i, s, e)
    \/ \E i \in 1..Len(probes) : ProbeReleased(i)
    \/ \E i \in 1..Len(probes) : ProbeReleaseFails(i)
    \/ \E i \in 1..Len(probes), err \in Failures : ProbeFailure(i, err)
    \/ GatherDone
    \/ CycleFails
    \/ PrintLine
    \/ ReportEnd
    \/ SleepDone
    \/ Interrupt

Spec == Init /\ [][Next]_vars

\* The program's own steps: everything but the delivery of a signal. The
\* event loop runs whatever is ready; every request resolves within its
\* timeout (line 47) and the sleep of line 94 ends.
Program ==
    \/ InstallHandler
    \/ LoadConfig
    \/ LoopTest
    \/ Dispatch
    \/ \E i \in 1..Len(probes), s \in Statuses, e \in ElapsedSet :
          ProbeResponse(i, s, e)
    \/ \E i \in 1..Len(probes) : ProbeReleased(i)
    \/ \E i \in 1..Len(probes) : ProbeReleaseFails(i)
    \/ \E i \in 1..Len(probes), err \in Failures : ProbeFailure(i, err)
    \/ GatherDone
    \/ CycleFails
    \/ PrintLine
    \/ ReportEnd
    \/ SleepDone

FairSpec == Spec /\ WF_vars(Program)

\* ------------------------------------------------- the report on its own
\* printAvailability over one domain after t cycles of one endpoint, for
\* every pair of counters with 0 <= up <= total.
InitRound ==
    /\ configFile = [kind |-> "list", doc |-> <<EpGet(U1)>>]
    /\ pc = "report"
    /\ running = TRUE
    /\ endpoints = <<WithDefault(EpGet(U1))>>
    /\ \E t \in 1..MaxTotal, u \in 0..MaxTotal :
          /\ u <= t
          /\ cycle = t
          /\ domainStats = <<[domain |-> getDomain(U1), up |-> u, total |-> t]>>
    /\ probes = <<[st |-> "done", domain |-> getDomain(U1), res |-> NoRes]>>
    /\ repIdx = 1
    /\ out = <<>>
    /\ exitStatus = <<>>
    /\ cancelledAt = <<>>

NextRound ==
    \/ PrintLine
    \/ ReportEnd

SpecRound == InitRound /\ [][NextRound]_vars

\* ------------------------------------------- runs against fixed servers
\* What session.request meets at each URL when every server behaves the
\* same way on every request.
ServerOf(url) ==
    IF url = U1 THEN [kind |-> "response", status |-> 200, elapsed |-> 499,
                      release |-> "ok"]
    ELSE IF url = U2 THEN [kind |-> "response", status |-> 300,
                           elapsed |-> 499, release |-> "ok"]
    ELSE IF url = U3 THEN [kind |-> "failure", err |-> "timeout"]
    ELSE IF url = U5 THEN [kind |-> "response", status |-> 200,
                           elapsed |-> 500, release |-> "raises"]
    ELSE [kind |-> "failure", err |-> "malformed"]

Behaviour(i) == ServerOf(endpoints[i].url)

ServedResponse(i) ==
    /\ i \in 1..Len(endpoints)
    /\ Behaviour(i).kind = "response"
    /\ ProbeResponse(i, Behaviour(i).status, Behaviour(i).elapsed)

ServedFailure(i) ==
    /\ i \in 1..Len(endpoints)
    /\ Behaviour(i).kind = "failure"
    /\ ProbeFailure(i, Behaviour(i).err)

ServedRelease(i) ==
    /\ i \in 1..Len(endpoints)
    /\ Behaviour(i).kind = "response"
    /\ Behaviour(i).release = "ok"
    /\ ProbeReleased(i)

ServedReleaseFails(i) ==
    /\ i \in 1..Len(endpoints)
    /\ Behaviour(i).kind = "response"
    /\ Behaviour(i).release = "raises"
    /\ ProbeReleaseFails(i)

\* Three endpoints over the served URLs, every combination.
OrderConfigs ==
    { [kind |-> "list", doc |-> <<EpGet(a), EpGet(b), EpGet(c)>>] :
        a \in {U1, U2, U3, U5}, b \in {U1, U2, U3, U5},
        c \in {U1, U2, U3, U5} }

InitOrder ==
    /\ configFile \in OrderConfigs
    /\ Constructed

NextOrder ==
    \/ InstallHandler
    \/ LoadConfig
    \/ LoopTest
    \/ Dispatch
    \/ \E i \in 1..Len(probes) : ServedResponse(i)
    \/ \E i \in 1..Len(probes) : ServedFailure(i)
    \/ \E i \in 1..Len(probes) : ServedRelease(i)
    \/ \E i \in 1..Len(probes) : ServedReleaseFails(i)
    \/ GatherDone
    \/ PrintLine
    \/ ReportEnd
    \/ SleepDone

SpecOrder == InitOrder /\ [][NextOrder]_vars

\* ------------------------------- one endpoint always UP, one always DOWN
\* Two endpoints on one domain: the first answers 2xx within 500 ms in every
\* cycle, the second never does.
SteadyConfig == [kind |-> "list", doc |-> <<EpGet(U1), EpPost(U2)>>]

InitSteady ==
    /\ configFile = SteadyConfig
    /\ Constructed

DispatchSteady ==
    /\ cycle < SteadyCycles
    /\ DispatchCycle

UpResponse ==
    \E status \in Statuses, elapsed \in ElapsedSet :
       /\ isUP(status, elapsed)
       /\ ProbeResponse(1, status, elapsed)

DownResponse ==
    \E status \in Statuses, elapsed \in ElapsedSet :
       /\ ~isUP(status, elapsed)
       /\ ProbeResponse(2, status, elapsed)

DownFailure == \E err \in Failures : ProbeFailure(2, err)

NextSteady ==
    \/ InstallHandler
    \/ LoadConfig
    \/ LoopTest
    \/ DispatchSteady
    \/ UpResponse
    \/ DownResponse
    \/ DownFailure
    \/ ProbeReleased(1)
    \/ ProbeReleased(2)
    \/ ProbeReleaseFails(2)
    \/ GatherDone
    \/ PrintLine
    \/ ReportEnd
    \/ SleepDone

SpecSteady == InitSteady /\ [][NextSteady]_vars

\* ================================================================ claims
\* The domains the configured URLs can give.
Domains == {getDomain(u) : u \in {U1, U2, U3, U4}}

Unfinished(i) == probes[i].st \in {"pending", "releasing"}

\* The lines of cycle k's report printed so far.
LinesOf(k) == {j \in 1..Len(out) : out[j].k = "line" /\ out[j].cycle = k}

\* C1: in every cycle the report is printed only after every probe
\* dispatched in that cycle has finished: while printAvailability runs, and
\* whenever a line of the current cycle's report is on the output, no probe
\* of the cycle is pending.
C1_ReportAfterAllProbes ==
    (pc = "report" \/ LinesOf(cycle) # {}) =>
        \A i \in 1..Len(probes) : ~Unfinished(i)

C1_Witness ==
    /\ pc = "report"
    /\ Len(probes) = 2
    /\ LinesOf(cycle) # {}
    /\ cycle = 2

\* A step in which probe i receives its response (lines 48-57).
Responds(i) == probes[i].st = "pending" /\ probes'[i].st = "releasing"

\* A step in which probe i's request raises (lines 59-61).
Fails(i) == probes[i].st = "pending" /\ probes'[i].st \in {"done", "raised"}

\* C2: a probe increments its domain's up counter, by exactly 1, if and
\* only if its response status is in [200, 300) and its elapsed time is
\* below 500 ms; no other step (non-2xx, slow 2xx, timeout, connection
\* failure) changes up.
C2_UpIffFast2xx ==
    [][\A d \in Domains :
         LET du == Up(domainStats', d) - Up(domainStats, d)
         IN  /\ du \in {0, 1}
             /\ du = 1 <=>
                  \E i \in 1..Len(probes) :
                     /\ Responds(i)
                     /\ probes[i].domain = d
                     /\ probes'[i].res.status >= 200
                     /\ probes'[i].res.status <= 299
                     /\ probes'[i].res.elapsed <= 499]_vars

C2_Witness ==
    \E i \in 1..Len(probes) :
       /\ probes[i].st = "releasing"
       /\ probes[i].res.status = 299
       /\ probes[i].res.elapsed = 499
       /\ Up(domainStats, probes[i].domain) = 1
       /\ \E j \in 1..Len(probes) :
             /\ j # i
             /\ probes[j].st = "releasing"
             /\ probes[j].domain = probes[i].domain
             /\ probes[j].res.status = 200
             /\ probes[j].res.elapsed = 500

\* C3: in every reachable state, also in the middle of a cycle, every
\* domain's counters satisfy 0 <= up <= total.
C3_UpAtMostTotal ==
    \A i \in 1..Len(domainStats) :
       /\ 0 <= domainStats[i].up
       /\ domainStats[i].up <= domainStats[i].total

C3_Witness ==
    /\ pc = "gather"
    /\ \E i, j \in 1..Len(probes) :
          /\ probes[i].st = "pending"
          /\ probes[j].st = "done"
          /\ probes[j].res.kind = "error"
    /\ \E i \in 1..Len(domainStats) :
          /\ domainStats[i].up >= 1
          /\ domainStats[i].up < domainStats[i].total

\* Number of configured endpoints whose URL authority is d.
EndpointsOn(d) ==
    Cardinality({i \in 1..Len(endpoints) :
                   HasUrl(endpoints[i]) /\ getDomain(endpoints[i].url) = d})

\* C4: no update is lost: when the report of the k-th completed cycle is
\* printed, total of each domain d is at least k times the number of
\* configured endpoints whose authority is d.
C4_NoLostUpdate ==
    pc = "report" =>
        \A d \in Domains : Total(domainStats, d) >= cycle * EndpointsOn(d)

C4_Witness ==
    /\ pc = "report"
    /\ cycle = 2
    /\ \E d \in Domains :
          /\ EndpointsOn(d) = 2
          /\ Total(domainStats, d) = 4
          /\ Up(domainStats, d) = 2

\* C5: a transport failure of a probe (timeout, connection refused, DNS
\* error, malformed response) never reaches the cycle: the step counts one
\* DOWN outcome for the probe's own domain (total + 1, up unchanged), the
\* probe finishes, the run loop stays where it is, and a cycle that has
\* dispatched its probes can only go on to its report.
C5_FailureAbsorbed ==
    [][/\ \A i \in 1..Len(probes) :
            Fails(i) =>
               /\ probes'[i].st = "done"
               /\ pc' = pc
               /\ exitStatus' = exitStatus
               /\ \A d \in Domains :
                     /\ Up(domainStats', d) = Up(domainStats, d)
                     /\ Total(domainStats', d) =
                           Total(domainStats, d) +
                              (IF d = probes[i].domain THEN 1 ELSE 0)
       /\ pc = "gather" => pc' \in {"gather", "report"}]_vars

C5_Witness ==
    /\ pc = "gather"
    /\ cycle = 1
    /\ Len(domainStats) = 2
    /\ \E i, j \in 1..Len(probes) :
          /\ probes[i].st = "done" /\ probes[i].res.kind = "error"
          /\ Total(domainStats, probes[i].domain) = 1
          /\ Up(domainStats, probes[i].domain) = 0
          /\ probes[j].st = "done" /\ probes[j].res.kind = "none"
          /\ Up(domainStats, probes[j].domain) = 1

\* Every domain counted so far has its line in cycle k's report.
ReportComplete(k) ==
    \A i \in 1..Len(domainStats) :
       \E j \in LinesOf(k) : out[j].domain = domainStats[i].domain

\* The flag was cleared while cycle k was in flight (probes dispatched, the
\* report not yet finished).
CancelledInCycle(k) ==
    /\ cancelledAt # <<>>
    /\ cancelledAt[1].pc \in {"gather", "report"}
    /\ cancelledAt[1].cycle = k

\* C6: a cancellation request that arrives while a cycle is in flight does
\* not abort the cycle: the cycle is either still running, or all its
\* probes have finished and its whole report is printed; the process exits
\* only after that, and with status 0.
C6_CancelledCycleFinishes ==
    \A k \in 1..cycle :
       CancelledInCycle(k) =>
          \/ cycle = k /\ pc \in {"gather", "report"}
          \/ /\ cycle = k
             /\ pc \in {"sleep", "test", "exited"}
             /\ \A i \in 1..Len(probes) : probes[i].st = "done"
             /\ ReportComplete(k)
             /\ pc = "exited" => exitStatus = <<0>>

C6_Witness ==
    /\ pc = "exited"
    /\ exitStatus = <<0>>
    /\ cancelledAt = <<[pc |-> "gather", cycle |-> 2]>>
    /\ Len(probes) = 2
    /\ Cardinality(LinesOf(2)) = 2

\* C7: no inter-cycle sleep starts after a cycle during which cancellation
\* was requested.
C7_NoSleepAfterCancelledCycle ==
    pc = "sleep" => ~CancelledInCycle(cycle)

\* A step in which a monitoring cycle begins (monitorCycle dispatches).
CycleBegins == pc = "enter" /\ pc' \in {"gather", "abort"}

\* C8 as stated: once running is false, no monitoring cycle begins.
C8_NoCycleAfterCancel ==
    [][~running => ~CycleBegins]_vars

\* C8 amended: once running is false no loop test passes, and a cycle
\* begins with the flag already false only when the request arrived between
\* the loop test that admitted this cycle and the cycle's start.
C8_NoLoopTestPassesAfterCancel ==
    [][/\ (~running /\ pc = "test") => pc' # "enter"
       /\ (~running /\ CycleBegins) =>
             cancelledAt = <<[pc |-> "enter", cycle |-> cycle]>>]_vars

C8_Witness ==
    /\ pc = "gather"
    /\ ~running
    /\ cycle = 2
    /\ cancelledAt = <<[pc |-> "enter", cycle |-> 1]>>

\* The configuration cannot be monitored: unreadable file, invalid syntax,
\* no list of endpoints, or an endpoint without url.
BadConfig ==
    \/ configFile.kind # "list"
    \/ \E i \in 1..Len(configFile.doc) : ~HasUrl(configFile.doc[i])

\* C9: a configuration failure is fatal: no report line is ever printed,
\* and the process ends with exit status 1 and an error message.
C9_ConfigFailureFatal ==
    BadConfig =>
       /\ \A j \in 1..Len(out) : out[j].k # "line"
       /\ pc = "exited" =>
             /\ exitStatus = <<1>>
             /\ \E j \in 1..Len(out) : out[j].k = "error"

\* C10: statistics are cumulative: no step removes or reorders a domain
\* entry, and no step lowers an up or total counter.
C10_CountersNeverDecrease ==
    [][/\ Len(domainStats') >= Len(domainStats)
       /\ \A i \in 1..Len(domainStats) :
             /\ domainStats'[i].domain = domainStats[i].domain
             /\ domainStats'[i].up >= domainStats[i].up
             /\ domainStats'[i].total >= domainStats[i].total]_vars

C10_Witness ==
    /\ pc = "gather"
    /\ cycle = 2
    /\ Len(domainStats) = 2
    /\ \A i \in 1..2 : domainStats[i].total = 2 /\ domainStats[i].up = 1
    /\ \A i \in 1..Len(probes) : probes[i].st = "done"

\* The lines of the current cycle's report that name domain d.
LinesFor(d) == {j \in LinesOf(cycle) : out[j].domain = d}

\* printAvailability has gone through every entry of the current cycle.
ReportPrinted ==
    \/ pc = "report" /\ repIdx > Len(domainStats)
    \/ pc = "sleep"

\* The distinct URL authorities of the configured endpoints.
Authorities ==
    {getDomain(endpoints[i].url) :
        i \in {n \in 1..Len(endpoints) : HasUrl(endpoints[n])}}

\* C11: a cycle's report never has a line for a domain whose total is 0 and
\* never two lines for one domain; once printed it has exactly one line for
\* each domain whose total is above 0, which is one line per distinct URL
\* authority of the configured endpoints, in every cycle.
C11_OneLinePerDomain ==
    /\ \A d \in Domains :
          /\ Cardinality(LinesFor(d)) <= 1
          /\ Total(domainStats, d) = 0 => LinesFor(d) = {}
          /\ ReportPrinted =>
                (Cardinality(LinesFor(d)) = 1 <=> Total(domainStats, d) > 0)
    /\ ReportPrinted =>
          Cardinality(LinesOf(cycle)) = Cardinality(Authorities)

C11_Witness ==
    /\ ReportPrinted
    /\ cycle = 2
    /\ Len(endpoints) = 2
    /\ Cardinality(Authorities) = 1
    /\ Cardinality(LinesOf(2)) = 1
    /\ \E d \in Domains : Total(domainStats, d) = 4 /\ LinesFor(d) # {}

\* The counters after probe i's whole outcome was applied to stats.
Applied(stats, i) ==
    LET b == Behaviour(i)
        d == getDomain(endpoints[i].url)
    IN  IF b.kind = "failure"
        THEN RecordDown(stats, d)
        ELSE LET counted == Record(stats, d, isUP(b.status, b.elapsed))
             IN  IF b.release = "raises"
                 THEN RecordDown(counted, d)
                 ELSE counted

RECURSIVE InIndexOrder(_, _, _)
\* The counters after k cycles whose probes complete in list order, the
\* current cycle being at endpoint i.
InIndexOrder(stats, k, i) ==
    IF k = 0 THEN stats
    ELSE IF i > Len(endpoints) THEN InIndexOrder(stats, k - 1, 1)
    ELSE InIndexOrder(Applied(stats, i), k, i + 1)

\* No probe of the cycles started so far is still running.
CyclesComplete == cycle >= 1 /\ pc \in {"report", "sleep", "test", "enter"}

\* C12: accumulation is commutative: with the outcome of every probe
\* fixed, the counters of every domain after the cycle, and the percentages
\* printed, are those of the probes completing in list order, whatever
\* order they completed in; outcomes A-up, B-down, A-down give A = {1, 2},
\* 50% and B = {0, 1}, 0%.
C12_OrderIndependent ==
    CyclesComplete =>
       LET want == InIndexOrder(<<>>, cycle, 1)
       IN  /\ \A d \in Domains :
                /\ Up(domainStats, d) = Up(want, d)
                /\ Total(domainStats, d) = Total(want, d)
                /\ \A j \in LinesFor(d) :
                      out[j].pct = Availability(Up(want, d), Total(want, d))
           /\ (cycle = 1 /\ configFile.doc = <<EpGet(U1), EpGet(U3), EpGet(U2)>>) =>
                /\ Up(domainStats, getDomain(U1)) = 1
                /\ Total(domainStats, getDomain(U1)) = 2
                /\ Up(domainStats, getDomain(U3)) = 0
                /\ Total(domainStats, getDomain(U3)) = 1
                /\ \A j \in LinesFor(getDomain(U1)) : out[j].pct = 50
                /\ \A j \in LinesFor(getDomain(U3)) : out[j].pct = 0

\* A-up, B-down, A-down with B's probe finishing first and A-down's second.
C12_Witness ==
    /\ pc = "sleep"
    /\ cycle = 1
    /\ configFile.doc = <<EpGet(U1), EpGet(U3), EpGet(U2)>>
    /\ domainStats = <<[domain |-> getDomain(U3), up |-> 0, total |-> 1],
                       [domain |-> getDomain(U1), up |-> 1, total |-> 2]>>
    /\ Cardinality(LinesOf(1)) = 2

\* C13: two endpoints on one domain, one UP and one DOWN in every cycle:
\* at the report of every cycle k up to the tenth the domain's counters are
\* {k, 2k} and the line printed for it says 50%.
C13_HalfAvailability ==
    pc \in {"report", "sleep"} =>
       /\ Up(domainStats, getDomain(U1)) = cycle
       /\ Total(domainStats, getDomain(U1)) = 2 * cycle
       /\ \A j \in LinesOf(cycle) : out[j].pct = 50

\* C15: every probe is counted exactly once, whatever path it takes: when
\* the report of the k-th cycle is printed, total of each domain d is at
\* most k times the number of configured endpoints whose authority is d.
C15_CountedOnce ==
    pc \in {"report", "sleep"} =>
       \A d \in Domains : Total(domainStats, d) <= cycle * EndpointsOn(d)

\* The configuration file holds an empty list.
EmptyList == configFile.kind = "list" /\ configFile.doc = <<>>

\* The moves of the program counter in a run that never fails.
LoopMoves ==
    {<<"install", "load">>, <<"load", "test">>, <<"test", "enter">>,
     <<"test", "exited">>, <<"enter", "gather">>, <<"gather", "report">>,
     <<"report", "sleep">>, <<"sleep", "test">>}

\* C14: with an empty endpoint list no probe is dispatched, no report line
\* is printed and no counter changes; each cycle goes straight through the
\* gather and the report to the sleep, and a further cycle begins only
\* after the sleep and a loop test that found the flag true.
C14_EmptyListStillLoops ==
    /\ [](EmptyList =>
            /\ domainStats = <<>>
            /\ probes = <<>>
            /\ \A j \in 1..Len(out) : out[j].k # "line")
    /\ [][EmptyList =>
            /\ pc' # pc => <<pc, pc'>> \in LoopMoves
            /\ (pc = "test" /\ pc' = "enter") => running
            /\ (pc = "test" /\ pc' = "exited") => ~running]_vars

C14_Witness ==
    /\ EmptyList
    /\ cycle = 2
    /\ pc = "sleep"
    /\ running

\* C16 as stated: no counter changes while a probe of the cycle is pending.
C16_NoChangeWhilePending ==
    [][domainStats' # domainStats =>
          \A i \in 1..Len(probes) : probes[i].st # "pending"]_vars

\* Probe i took a step and every other probe stayed as it was.
OnlyProbeStepped(i) ==
    /\ Len(probes') = Len(probes)
    /\ probes'[i] # probes[i]
    /\ \A n \in 1..Len(probes) : n # i => probes'[n] = probes[n]

\* All entries of the dict except that of domain d are as they were.
OnlyDomainChanged(d) ==
    \A e \in Domains \ {d} :
       /\ Up(domainStats', e) = Up(domainStats, e)
       /\ Total(domainStats', e) = Total(domainStats, e)

\* C16 amended: the counters are changed by the probes themselves, each in
\* a step of its own between two awaits and only for its own domain; the
\* cycle driver, the report, the sleep and the signal handler never change
\* a counter.
C16_OnlyProbeStepsChange ==
    [][domainStats' # domainStats =>
          /\ pc \in {"gather", "abort"}
          /\ pc' = pc
          /\ \E i \in 1..Len(probes) :
                /\ Unfinished(i)
                /\ OnlyProbeStepped(i)
                /\ OnlyDomainChanged(probes[i].domain)]_vars

\* One probe has written its counters while the other is still pending.
C16_Witness ==
    /\ pc = "gather"
    /\ Len(probes) = 2
    /\ probes[1].st = "pending"
    /\ probes[2].st = "done"
    /\ Total(domainStats, probes[2].domain) > 0
    /\ cycle = 1

\* C17: the run flag starts true; it changes only from true to false and
\* only in the signal handler, so it changes at most once and never
\* returns to true; every signal, also a repeated one, leaves it false.
C17_FlagFallsOnce ==
    /\ running = TRUE
    /\ [][/\ running' # running =>
                running /\ ~running' /\ Notices' = Notices + 1
          /\ Notices' # Notices => ~running']_vars

C17_Witness ==
    /\ Notices = 2
    /\ ~running
    /\ pc # "exited"

\* The report lines of the current cycle, in the order printed.
CurrentLines == SelectSeq(out, LAMBDA e : e.k = "line")

\* C18: the order of the domains in the report is the same in every cycle
\* of a run: each report lists the entries of the dict from the first on,
\* and a domain keeps the position it got when it was first seen, whatever
\* order the probes of later cycles complete in.
C18_StableReportOrder ==
    /\ [](\A j \in 1..Len(CurrentLines) :
             /\ j <= Len(domainStats)
             /\ CurrentLines[j].domain = domainStats[j].domain)
    /\ [][/\ Len(domainStats') >= Len(domainStats)
          /\ \A i \in 1..Len(domainStats) :
                domainStats'[i].domain = domainStats[i].domain]_vars

\* The second report of a run whose dict holds the second endpoint's domain
\* first.
C18_Witness ==
    /\ cycle = 2
    /\ pc = "sleep"
    /\ Len(endpoints) = 2
    /\ Len(CurrentLines) = 2
    /\ CurrentLines[1].domain = getDomain(endpoints[2].url)
    /\ CurrentLines[2].domain = getDomain(endpoints[1].url)

\* C19 as stated, the part about the exit status: a process that was asked
\* to stop and has ended has ended with status 0.
C19_CancelledExitsZero ==
    (Notices > 0 /\ pc = "exited") => exitStatus = <<0>>

\* The configuration loads and every endpoint has a url.
GoodConfig == ~BadConfig

\* The run is cut off by the cycle bound, not by the program.
CutOff == pc = "enter" /\ cycle = MaxCycles

\* C19 amended: with a configuration that loads and whose endpoints all
\* have a url, once the flag is false the process eventually ends with exit
\* status 0, the shutdown notice printed before; after the exit nothing
\* happens any more (no cycle, no report line, no counter change).
C19_CancelEventuallyStops ==
    /\ (~running /\ GoodConfig /\ ~CutOff) ~>
          (pc = "exited" /\ exitStatus = <<0>> /\ Notices > 0)
    /\ [][pc # "exited"]_vars

\* The flag fell while probes were in flight and the process has ended.
C19_Witness ==
    /\ pc = "exited"
    /\ exitStatus = <<0>>
    /\ cancelledAt # <<>>
    /\ cancelledAt[1].pc = "gather"
    /\ cancelledAt[1].cycle = 1
    /\ domainStats # <<>>

Abs(x) == IF x < 0 THEN 0 - x ELSE x

\* C20: the percentage printed for counters 0 <= up <= total, total > 0,
\* lies in 0..100 and is the integer nearest to 100 * up / total, the even
\* one of the two when both are equally near; 1/8 prints 12, 3/8 prints 38.
C20_RoundHalfEven ==
    \A j \in 1..Len(out) :
       out[j].k = "line" =>
          LET e == domainStats[IndexOf(domainStats, out[j].domain)]
              p == out[j].pct
              dist == Abs(100 * e.up - p * e.total)
          IN  /\ p \in 0..100
              /\ 2 * dist <= e.total
              /\ 2 * dist = e.total => p % 2 = 0
              /\ (e.up = 1 /\ e.total = 8) => p = 12
              /\ (e.up = 3 /\ e.total = 8) => p = 38

\* 3/8 = 37.5% has been printed as 38.
C20_Witness ==
    /\ pc = "sleep"
    /\ domainStats[1].up = 3
    /\ domainStats[1].total = 8
    /\ Len(out) = 1
    /\ out[1].pct = 38

====
